---- MODULE Spec2Model ----
(***************************************************************************)
(* Model of sstables::checksummed_file_data_source_impl, the chunk-aligned *)
(* checksum-verifying reader of sstables/checksummed_data_source.cc, with  *)
(* the older uncompressed_file_data_source_impl of sstables/uncompress.cc  *)
(* run beside it on the same arguments and the same calls.                 *)
(*                                                                         *)
(* A buffer is the sequence of file offsets of the bytes it holds; the     *)
(* byte values are file[offset + 1].  uint64_t arithmetic is arithmetic    *)
(* modulo Word.                                                            *)
(***************************************************************************)
EXTENDS Integers, Sequences, FiniteSets, TLC

\* ------------------------------------------------------------------ bounds
WordBits == 4
MaxFileLen == 5
MaxGarbage == 1

Word == 2 ^ WordBits
ChunkSizes == {0, 2, 3, 4}

VARIABLES
    args,        \* constructor arguments
    file,        \* bytes of the data file
    checksums,   \* checksum.checksums, entry i at index i + 1
    phase,       \* "new", "ctor_failed", "open", "closed", "crashed"
    rd,          \* fields of checksummed_file_data_source_impl
    stream,      \* the file input stream behind _input_stream
    slot,        \* *digest_result of the caller
    last,        \* outcome of the last call
    delivered,   \* concatenation of all buffers returned by get()
    corrupt,     \* history: a get() has failed its checksum comparison
    unc          \* the uncompressed_file_data_source_impl run alongside

vars == <<args, file, checksums, phase, rd, stream, slot, last, delivered,
          corrupt, unc>>

\* ------------------------------------------------------- integer helpers
Wrap(x) == x % Word

Min(a, b) == IF a < b THEN a ELSE b

RECURSIVE BitAnd(_, _)
BitAnd(a, b) ==
    IF a = 0 \/ b = 0 THEN 0
    ELSE (a % 2) * (b % 2) + 2 * BitAnd(a \div 2, b \div 2)

BitNot(a) == Word - 1 - a

RECURSIVE count_trailing_zeros(_)
count_trailing_zeros(x) ==
    IF x % 2 = 1 THEN 0 ELSE 1 + count_trailing_zeros(x \div 2)

ShiftRight(x, n) == x \div (2 ^ n)

\* _beg_pos & ~(chunk_size - 1)
AlignDown(x, chunk_size) == BitAnd(x, BitNot(Wrap(chunk_size - 1)))

\* faulty variant of ChunkOffset: the mask is chunk_size, not chunk_size - 1
ChunkOffsetNoMask(x, chunk_size) == BitAnd(x, chunk_size)

\* _pos & (chunk_size - 1)
ChunkOffset(x, chunk_size) == BitAnd(x, Wrap(chunk_size - 1))

\* faulty variant of InvalidChunkSize: only a zero chunk size is rejected
InvalidChunkSizeZeroOnly(chunk_size) == chunk_size = 0

InvalidChunkSize(chunk_size) ==
    chunk_size = 0 \/ BitAnd(chunk_size, Wrap(chunk_size - 1)) # 0

\* ------------------------------------------------- checksum and digest
RECURSIVE AdlerFeed(_, _)
AdlerFeed(state, bytes) ==
    IF bytes = <<>> THEN state
    ELSE LET a == ((state % 65536) + Head(bytes)) % 65521
             b == ((state \div 65536) + a) % 65521
         IN AdlerFeed(b * 65536 + a, Tail(bytes))

init_checksum == 1

checksum(bytes) == AdlerFeed(init_checksum, bytes)

checksum_combine_or_feed(full, bytes) == AdlerFeed(full, bytes)

Bytes(buf) == [i \in 1..Len(buf) |-> file[buf[i] + 1]]

\* ------------------------------------------------------ file and table
Range(a, b) == [i \in 1..(IF b > a THEN b - a ELSE 0) |-> a + i - 1]

NumChunks(chunk_size, file_len) ==
    IF chunk_size = 0 THEN 0 ELSE (file_len + chunk_size - 1) \div chunk_size

ChunkOf(f, chunk_size, i) ==
    [j \in 1..(Min((i + 1) * chunk_size, Len(f)) - i * chunk_size) |->
        f[i * chunk_size + j]]

CorrectTable(f, chunk_size) ==
    [i \in 1..NumChunks(chunk_size, Len(f)) |->
        AdlerFeed(init_checksum, ChunkOf(f, chunk_size, i - 1))]

\* a data file of n bytes whose chunks are neither all equal nor all
\* different: 1 2 1 2 3 4 3 4 1 2 ...
FileContents(n) ==
    { [i \in 1..n |-> 1 + ((i - 1) % 2) + 2 * (((i - 1) \div 4) % 2)] }

\* a table entry that is wrong for chunk i: a value no chunk has, or the
\* checksum of what follows chunk i in the file
WrongEntries(f, chunk_size, i) ==
    {0, checksum(ChunkOf(f, chunk_size, i + 1))}
        \ {checksum(ChunkOf(f, chunk_size, i))}

Tables(f, chunk_size) ==
    LET good == CorrectTable(f, chunk_size)
    IN {good} \cup
       UNION { { [good EXCEPT ![i] = w] :
                    w \in WrongEntries(f, chunk_size, i - 1) } :
               i \in DOMAIN good }

\* ------------------------------------------------------------- results
in_progress == [status |-> "in_progress", msg |-> <<>>]
valid == [status |-> "valid", msg |-> <<>>]
invalid(m) == [status |-> "invalid", msg |-> <<m>>]

\* what the caller's digest_validation_result holds before construction:
\* nothing yet (value-initialised: status 0, no message)
SlotValues == {[status |-> "invalid", msg |-> <<>>]}

Outcome(op, res, why, offset, buf) ==
    [op |-> op, res |-> res, why |-> why, offset |-> offset, buf |-> buf]

HasDigest == args.digest # <<>>

\* ---------------------------------------------------------------- Init
\* requested lengths: nothing, part of what is left, all of it, too much
Lengths(file_len, offset) ==
    IF offset > file_len THEN {0, 1} ELSE 0..(file_len - offset + 1)

InitReader ==
    /\ \E cs \in ChunkSizes, fl \in 0..MaxFileLen, hs \in BOOLEAN :
        \E off \in 0..(fl + 1), f \in FileContents(fl) :
        \E len \in Lengths(fl, off) :
            /\ file = f
            /\ checksums \in (IF hs THEN Tables(f, cs) ELSE {CorrectTable(f, cs)})
            /\ \E d \in {<<>>, <<checksum(f)>>, <<0>>} :
                args = [chunk_size |-> cs, file_len |-> fl, offset |-> off,
                        len |-> len, digest |-> d, has_slot |-> hs]
            /\ slot \in (IF hs THEN SlotValues ELSE {[status |-> "none", msg |-> <<>>]})
    /\ phase = "new"
    /\ rd = [pos |-> 0, beg_pos |-> 0, end_pos |-> 0, underlying_pos |-> 0,
             actual_digest |-> 0, chunk_size_trailing_zeros |-> 0,
             has_stream |-> FALSE]
    /\ stream = [state |-> "none", start |-> 0, len |-> 0, pos |-> 0]
    /\ last = Outcome("none", "ok", "", <<>>, <<>>)
    /\ delivered = <<>>
    /\ corrupt = FALSE

\* the older reader before construction, or not run at all
Unconstructed(phase0) ==
    [phase |-> phase0, pos |-> 0, beg_pos |-> 0, end_pos |-> 0,
     underlying_pos |-> 0,
     stream |-> [state |-> "none", start |-> 0, len |-> 0, pos |-> 0],
     last |-> Outcome("none", "ok", "", <<>>, <<>>)]

\* the checksummed reader alone
Init == InitReader /\ unc = Unconstructed("absent")

\* both readers, on the arguments both take: no digest, and a range
\* that lies inside the file
InitPair ==
    /\ InitReader
    /\ ~HasDigest
    /\ args.offset + args.len <= args.file_len
    /\ unc = Unconstructed("new")

\* ------------------------------------------------- file input stream
\* make_file_input_stream(f, start, len): bytes [start, start + len) of
\* the file, ending early at the end of the file
make_file_input_stream(start, len) ==
    [state |-> "open", start |-> start, len |-> len, pos |-> start]

StreamStop(st) == Min(st.start + st.len, Len(file))

\* input_stream::read_exactly(n): n bytes, or fewer at end of stream
read_exactly(st, n) == Range(st.pos, Min(st.pos + n, StreamStop(st)))

\* input_stream::skip(n): n bytes, or to the end of the stream
StreamSkip(st, n) ==
    [st EXCEPT !.pos = IF @ + n > StreamStop(st) THEN StreamStop(st) ELSE @ + n]

\* faulty variant of trim_front: the leading bytes are kept
trim_front_nothing(buf, n) == buf

\* temporary_buffer::trim_front(n)
trim_front(buf, n) == SubSeq(buf, n + 1, Len(buf))

\* what undefined behaviour does: the process dies, or it runs on
UB == {"crash", "run"}

\* ------------------------------ uncompressed_file_data_source_impl
\* constructor (uncompress.cc:31-51): no argument is checked but
\* chunk_size # 0, and _end_pos is pos + len whatever the file length
UncompressedConstruct ==
    LET chunk_size == args.chunk_size
        pos == args.offset
        end_pos == Wrap(pos + args.len)
    IN
    IF chunk_size = 0
    THEN [unc EXCEPT !.phase = "aborted",
                     !.last = Outcome("ctor", "aborted", "assert", <<>>, <<>>)]
    ELSE
    LET start == Wrap((pos \div chunk_size) * chunk_size)
        end == Wrap((end_pos \div chunk_size + 1) * chunk_size)
    IN [phase |-> "open", pos |-> pos, beg_pos |-> pos, end_pos |-> end_pos,
        underlying_pos |-> start,
        stream |-> make_file_input_stream(start, Wrap(end - start)),
        last |-> Outcome("ctor", "ok", "", <<>>, <<>>)]

\* get() (uncompress.cc:53-76); `hit` says whether a table entry read
\* past the end of the table happens to equal the chunk's checksum
UncompressedGet(u, ub, hit) ==
    LET chunk_size == args.chunk_size IN
    IF u.pos >= u.end_pos
    THEN [u EXCEPT !.last = Outcome("get", "ok", "eos", <<>>, <<>>)]
    ELSE IF u.pos # u.beg_pos /\ u.pos % chunk_size # 0
    THEN [u EXCEPT !.last = Outcome("get", "error", "unaligned", <<>>, <<>>)]
    ELSE
    LET raw == read_exactly(u.stream, chunk_size)
        st2 == [u.stream EXCEPT !.pos = @ + Len(raw)]
        index == u.pos \div chunk_size
        inside == index < Len(checksums)
        actual_checksum == checksum(Bytes(raw))
        front == u.pos % chunk_size
    IN
    IF ~inside /\ ub = "crash"
    THEN \* _checksum.checksums[...] past the end of the vector
         [u EXCEPT !.phase = "crashed", !.stream = st2,
                   !.last = Outcome("get", "crashed", "checksums", <<>>, <<>>)]
    ELSE IF (inside /\ checksums[index + 1] # actual_checksum)
                \/ (~inside /\ ~hit)
    THEN [u EXCEPT !.stream = st2,
                   !.last = Outcome("get", "error", "checksum_mismatch",
                                    <<u.underlying_pos>>, <<>>)]
    ELSE IF front > Len(raw) /\ ub = "crash"
    THEN \* trim_front() past the end of the buffer
         [u EXCEPT !.phase = "crashed", !.stream = st2,
                   !.last = Outcome("get", "crashed", "trim_front", <<>>, <<>>)]
    ELSE
    LET trimmed == trim_front(raw, front)
        buf == IF front > Len(raw) THEN <<Word>> ELSE trimmed
        size == IF front > Len(raw) THEN Wrap(Len(raw) - front)
                ELSE Len(trimmed)
    IN [u EXCEPT !.pos = Wrap(@ + size),
                 !.underlying_pos = Wrap(@ + chunk_size),
                 !.stream = st2,
                 !.last = Outcome("get", "ok", "chunk", <<>>, buf)]

\* whether get() on u runs into undefined behaviour
UncompressedGetUB(u) ==
    UncompressedGet(u, "crash", TRUE).phase = "crashed"
        \/ UncompressedGet(u, "crash", FALSE).phase = "crashed"

\* skip() (uncompress.cc:85-98): _pos += n comes before the assertion
UncompressedSkip(u, n) ==
    LET chunk_size == args.chunk_size
        pos2 == Wrap(u.pos + n)
    IN
    IF pos2 > u.end_pos
    THEN [u EXCEPT !.phase = "aborted", !.pos = pos2,
                   !.last = Outcome("skip", "aborted", "assert", <<>>, <<>>)]
    ELSE IF pos2 = u.end_pos
    THEN [u EXCEPT !.pos = pos2,
                   !.last = Outcome("skip", "ok", "end", <<>>, <<>>)]
    ELSE
    LET underlying_n ==
            Wrap((pos2 \div chunk_size) * chunk_size - u.underlying_pos)
    IN [u EXCEPT !.pos = pos2, !.beg_pos = pos2,
                 !.underlying_pos = Wrap(@ + underlying_n),
                 !.stream = StreamSkip(@, underlying_n),
                 !.last = Outcome("skip", "ok", "", <<>>, <<>>)]

\* close() (uncompress.cc:78-83)
UncompressedClose(u) ==
    [u EXCEPT !.phase = "closed", !.stream.state = "closed",
              !.last = Outcome("close", "ok", "", <<>>, <<>>)]

\* --------------------------------------------------------- constructor
\* faulty variant of EmptyRange: a range starting at the end of the file
\* is not recognised as empty
EmptyRangeLenOnly(pos, len, file_len) == len = 0

EmptyRange(pos, len, file_len) == len = 0 \/ pos = file_len

EndPos(pos, len, file_len) ==
    IF EmptyRange(pos, len, file_len) THEN pos
    ELSE IF len > file_len - pos THEN file_len
    ELSE Wrap(pos + len)

PartialRead(pos, end_pos, file_len) == Wrap(end_pos - pos) < file_len

PhysicalStart(beg_pos, chunk_size) == AlignDown(beg_pos, chunk_size)

PhysicalEnd(end_pos, chunk_size) ==
    Wrap(AlignDown(end_pos, chunk_size) + chunk_size)

\* the value of a member that was never initialised
Indeterminate == {0, Word - 1}

CtorFail(why) ==
    /\ phase' = "ctor_failed"
    /\ last' = Outcome("ctor", "internal_error", why, <<>>, <<>>)
    /\ UNCHANGED <<rd, stream, slot, delivered>>

Construct ==
    /\ phase = "new"
    /\ UNCHANGED <<args, file, checksums, corrupt>>
    /\ unc' = IF unc.phase # "new" THEN unc ELSE UncompressedConstruct
    /\ LET chunk_size == args.chunk_size
           pos == args.offset
           file_len == args.file_len
           end_pos == EndPos(pos, args.len, file_len)
       IN
       IF InvalidChunkSize(chunk_size) THEN CtorFail("invalid_chunk_size")
       ELSE IF pos > file_len THEN CtorFail("beyond_end")
       ELSE IF EmptyRange(pos, args.len, file_len) THEN
            /\ phase' = "open"
            /\ \E u \in Indeterminate :
                rd' = [pos |-> pos, beg_pos |-> pos, end_pos |-> end_pos,
                       underlying_pos |-> u,
                       actual_digest |-> init_checksum,
                       chunk_size_trailing_zeros |-> count_trailing_zeros(chunk_size),
                       has_stream |-> FALSE]
            /\ last' = Outcome("ctor", "ok", "empty", <<>>, <<>>)
            /\ UNCHANGED <<stream, slot, delivered>>
       ELSE IF HasDigest /\ PartialRead(pos, end_pos, file_len)
            THEN CtorFail("partial_digest")
       ELSE IF HasDigest /\ ~args.has_slot THEN CtorFail("no_slot")
       ELSE \E ub \in (IF args.has_slot THEN {"run"} ELSE UB) :
            IF ~args.has_slot /\ ub = "crash" THEN
                \* *_digest_result = ... through a null pointer
                /\ phase' = "crashed"
                /\ last' = Outcome("ctor", "crashed", "null_digest_result", <<>>, <<>>)
                /\ UNCHANGED <<rd, stream, slot, delivered>>
            ELSE
            LET start == PhysicalStart(pos, chunk_size)
                end == PhysicalEnd(end_pos, chunk_size)
            IN
            /\ phase' = "open"
            /\ slot' = IF args.has_slot THEN in_progress ELSE slot
            /\ stream' = make_file_input_stream(start, Wrap(end - start))
            /\ rd' = [pos |-> pos, beg_pos |-> pos, end_pos |-> end_pos,
                      underlying_pos |-> start,
                      actual_digest |-> init_checksum,
                      chunk_size_trailing_zeros |-> count_trailing_zeros(chunk_size),
                      has_stream |-> TRUE]
            /\ last' = Outcome("ctor", "ok", "", <<>>, <<>>)
            /\ UNCHANGED delivered

\* a failed SCYLLA_ASSERT of the older reader, or its crash, ends the
\* process both readers run in
OlderReaderAlive == unc.phase \notin {"aborted", "crashed"}

\* ----------------------------------------------------------------- get
GetOut(kind, why, r, st, sl, buf, offset) ==
    [kind |-> kind, why |-> why, r |-> r, st |-> st, slot |-> sl,
     buf |-> buf, offset |-> offset]

Misaligned(r, chunk_size) ==
    r.pos # r.beg_pos /\ ChunkOffset(r.pos, chunk_size) # 0

\* lines 122-129: the write to *_digest_result when the file is consumed
\* faulty variant of DigestVerdict: a digest mismatch is not recorded
DigestVerdictDropsMismatch(sl, pos, actual_digest) ==
    IF pos = args.file_len /\ HasDigest /\ args.digest[1] = actual_digest
    THEN valid
    ELSE sl

DigestVerdict(sl, pos, actual_digest) ==
    IF pos = args.file_len /\ HasDigest
    THEN IF args.digest[1] # actual_digest
         THEN invalid("Digest mismatch")
         ELSE valid
    ELSE sl

GetResult(r, st, sl, ub) ==
    LET chunk_size == args.chunk_size IN
    IF r.pos >= r.end_pos
    THEN GetOut("ok", "eos", r, st, sl, <<>>, <<>>)
    ELSE IF Misaligned(r, chunk_size)
    THEN GetOut("error", "unaligned", r, st, sl, <<>>, <<>>)
    ELSE IF ~r.has_stream /\ ub = "crash"
    THEN \* _input_stream-> on an empty optional
         GetOut("crashed", "no_stream", r, st, sl, <<>>, <<>>)
    ELSE
    LET raw == IF r.has_stream THEN read_exactly(st, chunk_size) ELSE <<>>
        st2 == [st EXCEPT !.pos = @ + Len(raw)]
        expected_checksum ==
            checksums[ShiftRight(r.pos, r.chunk_size_trailing_zeros) + 1]
        actual_checksum == checksum(Bytes(raw))
    IN
    IF expected_checksum # actual_checksum
    THEN GetOut("error", "checksum_mismatch", r, st2, sl, <<>>,
                <<r.underlying_pos>>)
    ELSE
    LET digest == IF HasDigest
                  THEN checksum_combine_or_feed(r.actual_digest, Bytes(raw))
                  ELSE r.actual_digest
        front == ChunkOffset(r.pos, chunk_size)
    IN
    IF front > Len(raw) /\ ub = "crash"
    THEN \* trim_front() past the end of the buffer
         GetOut("crashed", "trim_front", r, st2, sl, <<>>, <<>>)
    ELSE
    LET trimmed == trim_front(raw, front)
        buf == IF front > Len(raw) THEN <<Word>> ELSE trimmed
        \* buf.size(); _size -= pos wraps when more is trimmed than held
        size == IF front > Len(raw) THEN Wrap(Len(raw) - front)
                ELSE Len(trimmed)
        pos2 == Wrap(r.pos + size)
        r2 == [r EXCEPT !.pos = pos2,
                        !.underlying_pos = Wrap(@ + chunk_size),
                        !.actual_digest = digest]
    IN GetOut("ok", "chunk", r2, st2, DigestVerdict(sl, pos2, digest), buf, <<>>)

\* a buffer trimmed past its end holds bytes that are not the file's; the
\* model follows at most MaxGarbage such buffers
GarbageSeen == Cardinality({i \in 1..Len(delivered) : delivered[i] = Word})

Get ==
    /\ phase = "open"
    /\ OlderReaderAlive
    /\ UNCHANGED <<args, file, checksums>>
    /\ \E ub \in (IF GetResult(rd, stream, slot, "crash").kind = "crashed"
                        /\ GarbageSeen < MaxGarbage
                   THEN UB ELSE {"crash"}) :
        LET g == GetResult(rd, stream, slot, ub) IN
        /\ corrupt' = (corrupt \/ g.why = "checksum_mismatch")
        /\ rd' = g.r
        /\ stream' = g.st
        /\ slot' = g.slot
        /\ phase' = IF g.kind = "crashed" THEN "crashed" ELSE "open"
        /\ last' = Outcome("get", g.kind, g.why, g.offset, g.buf)
        /\ delivered' = delivered \o g.buf
    /\ IF unc.phase # "open" THEN unc' = unc
       ELSE \E ub \in (IF UncompressedGetUB(unc) THEN UB ELSE {"crash"}),
               hit \in (IF UncompressedGetUB(unc) THEN BOOLEAN ELSE {FALSE}) :
                unc' = UncompressedGet(unc, ub, hit)

\* ---------------------------------------------------------------- skip
\* skip lengths: none, within a chunk, a whole chunk, and one that makes
\* _pos + n exceed the width of uint64_t
SkipArgs == {0, 1, 2, Word - 1}

SkipOut(kind, why, r, st) == [kind |-> kind, why |-> why, r |-> r, st |-> st]

\* faulty variant of SkipForbidden: skip() ignores the expected digest
SkipNeverForbidden == FALSE

SkipForbidden == HasDigest

SkipResult(r, st, n, ub) ==
    LET chunk_size == args.chunk_size
        pos2 == Wrap(r.pos + n)
    IN
    IF SkipForbidden THEN SkipOut("error", "skip_digest", r, st)
    ELSE IF pos2 > r.end_pos THEN SkipOut("error", "skip_past_end", r, st)
    ELSE IF pos2 = r.end_pos THEN SkipOut("ok", "end", [r EXCEPT !.pos = pos2], st)
    ELSE IF ~r.has_stream /\ ub = "crash"
    THEN \* _input_stream-> on an empty optional
         SkipOut("crashed", "no_stream", [r EXCEPT !.pos = pos2], st)
    ELSE
    LET underlying_n == Wrap(AlignDown(pos2, chunk_size) - r.underlying_pos)
    IN SkipOut("ok", "",
               [r EXCEPT !.pos = pos2, !.beg_pos = pos2,
                         !.underlying_pos = Wrap(@ + underlying_n)],
               IF r.has_stream THEN StreamSkip(st, underlying_n) ELSE st)

Skip(n) ==
    /\ phase = "open"
    /\ OlderReaderAlive
    /\ UNCHANGED <<args, file, checksums, slot, delivered, corrupt>>
    /\ \E ub \in (IF SkipResult(rd, stream, n, "crash").kind = "crashed"
                   THEN UB ELSE {"crash"}) :
        LET s == SkipResult(rd, stream, n, ub) IN
        /\ rd' = s.r
        /\ stream' = s.st
        /\ phase' = IF s.kind = "crashed" THEN "crashed" ELSE "open"
        /\ last' = Outcome("skip", s.kind, s.why, <<>>, <<>>)
    /\ unc' = IF unc.phase # "open" THEN unc ELSE UncompressedSkip(unc, n)

\* --------------------------------------------------------------- close
Close ==
    /\ phase = "open"
    /\ OlderReaderAlive
    /\ phase' = "closed"
    /\ stream' = IF rd.has_stream THEN [stream EXCEPT !.state = "closed"]
                 ELSE stream
    /\ last' = Outcome("close", "ok", "", <<>>, <<>>)
    /\ unc' = IF unc.phase # "open" THEN unc ELSE UncompressedClose(unc)
    /\ UNCHANGED <<args, file, checksums, rd, slot, delivered, corrupt>>

Next ==
    \/ Construct
    \/ Get
    \/ \E n \in SkipArgs : Skip(n)
    \/ Close

Spec == Init /\ [][Next]_vars

\* a caller that only pulls: construction, get() and close()
NextPull ==
    \/ Construct
    \/ Get
    \/ Close

SpecPull == Init /\ [][NextPull]_vars

\* the two readers side by side
SpecPair == InitPair /\ [][Next]_vars

\* =============================================================== claims
TableCorrect == checksums = CorrectTable(file, args.chunk_size)

BadChunks ==
    {i \in 0..(Len(checksums) - 1) :
        checksums[i + 1] # CorrectTable(file, args.chunk_size)[i + 1]}

FullFileRead == args.offset = 0 /\ args.len >= args.file_len

Requested == Range(args.offset, Min(args.offset + args.len, args.file_len))

Constructed == phase \in {"open", "closed"}

EndOfStream ==
    phase = "open" /\ last.op = "get" /\ last.res = "ok" /\ last.buf = <<>>

\* C1: with a correct table and no skip, the buffers returned by get() up
\* to the first empty one are exactly the bytes [offset, min(offset + len,
\* file_len)) of the file.
C1_DeliversExactlyRequested ==
    (TableCorrect /\ args.has_slot /\ EndOfStream) => delivered = Requested

\* C2: in a full-file read with exactly one wrong table entry i, the chunks
\* before i are delivered, the get() reading chunk i fails reporting file
\* offset i * chunk_size, and no later get() delivers anything.
C2_NothingDeliveredAfterCorruption ==
    \A i \in BadChunks :
        (FullFileRead /\ BadChunks = {i} /\ phase = "open"
            /\ last.op = "get")
        => /\ ~corrupt =>
                /\ last.res = "ok"
                /\ delivered = Range(0, rd.pos)
                /\ rd.pos <= i * args.chunk_size
           /\ corrupt => delivered = Range(0, i * args.chunk_size)
           /\ (last.why = "checksum_mismatch"
                    /\ delivered = Range(0, i * args.chunk_size))
                => last.offset = <<i * args.chunk_size>>

\* C3: a whole-file reader with the matching expected digest and a correct
\* table leaves `valid` in the result slot once get() has returned the
\* empty end-of-stream buffer, whatever the file length.
C3_ValidAtEndOfStream ==
    (FullFileRead /\ TableCorrect /\ args.has_slot
        /\ args.digest = <<checksum(file)>> /\ EndOfStream)
    => slot.status = "valid"

\* C4: a whole-file reader with a correct table and an expected digest that
\* differs from the accumulated one never fails a get(), delivers the file
\* in order, and holds `invalid` with a message once the last chunk has
\* been delivered.
C4_DigestMismatchRecorded ==
    (FullFileRead /\ TableCorrect /\ HasDigest
        /\ args.digest # <<checksum(file)>> /\ Constructed)
    => /\ ~corrupt
       /\ last.op = "get" => last.res = "ok"
       /\ delivered = Range(0, rd.pos)
       /\ EndOfStream => delivered = Range(0, args.file_len)
       /\ (delivered # <<>> /\ Len(delivered) = args.file_len)
            => (slot.status = "invalid" /\ slot.msg # <<>>)

C4_Witness ==
    /\ FullFileRead /\ TableCorrect /\ HasDigest
    /\ args.digest # <<checksum(file)>>
    /\ EndOfStream
    /\ Len(delivered) = args.file_len
    /\ Len(delivered) > args.chunk_size
    /\ slot.status = "invalid"

\* everything get() still returns from reader state (r, st, sl), up to the
\* first empty buffer or failure
RECURSIVE PullAll(_, _, _)
PullAll(r, st, sl) ==
    LET g == GetResult(r, st, sl, "crash") IN
    IF g.kind # "ok" \/ g.buf = <<>> THEN <<>>
    ELSE g.buf \o PullAll(g.r, g.st, g.slot)

Drop(s, n) == SubSeq(s, n + 1, Len(s))

InSync == rd.has_stream => stream.pos = rd.underlying_pos

\* C5: without a digest, skip(n) with pos + n <= end_pos followed by
\* pulling to the end yields what pulling to the end without the skip
\* yields, less its first n bytes.
C5_SkipIsDiscard ==
    (phase = "open" /\ ~HasDigest /\ args.has_slot /\ TableCorrect
        /\ ~corrupt /\ InSync)
    => \A n \in 0..(MaxFileLen + 1) :
        rd.pos + n <= rd.end_pos =>
            LET s == SkipResult(rd, stream, n, "crash") IN
            /\ s.kind = "ok"
            /\ PullAll(s.r, s.st, slot) = Drop(PullAll(rd, stream, slot), n)

\* C6: construction with an expected digest fails whenever the requested
\* range is not the whole file (offset > 0 or len < file_len - offset).
C6_PartialDigestRejected ==
    (last.op = "ctor" /\ HasDigest /\ args.has_slot
        /\ ~InvalidChunkSize(args.chunk_size)
        /\ args.offset <= args.file_len
        /\ (args.offset > 0 \/ args.len < args.file_len - args.offset))
    => phase = "ctor_failed"

\* C7: with an expected digest, every skip(n) fails with the usage error
\* and changes nothing of the reader, the result slot or the stream.
C7_SkipRejectedUnderDigest ==
    [][(HasDigest /\ \E n \in SkipArgs : Skip(n))
        => /\ last'.res = "error" /\ last'.why = "skip_digest"
           /\ rd' = rd /\ stream' = stream /\ slot' = slot
           /\ phase' = phase /\ delivered' = delivered]_vars

C7_Witness ==
    /\ HasDigest /\ last.op = "skip" /\ last.why = "skip_digest"
    /\ delivered # <<>> /\ rd.pos < rd.end_pos

Consumed == delivered # <<>> /\ rd.pos = args.file_len

\* C8: with a digest requested, the slot holds in_progress from successful
\* construction until the get() that brings pos to file_len, that get()
\* writes valid or invalid, nothing changes the slot afterwards, and the
\* slot is never valid while part of the file is unread.
C8_InProgressUntilConsumed ==
    [][(HasDigest /\ args.has_slot /\ phase' \in {"open", "closed"})
        => /\ ~Consumed' => slot' = in_progress
           /\ slot'.status = "valid" => delivered' = Range(0, args.file_len)
           /\ (phase # "new" /\ slot' # slot)
                => /\ slot = in_progress
                   /\ slot'.status \in {"valid", "invalid"}
                   /\ last'.op = "get" /\ rd'.pos = args.file_len]_vars

\* C9: every construction that succeeds with an expected digest leaves
\* in_progress in the result slot before anything is read.
C9_InProgressAfterConstruction ==
    (last.op = "ctor" /\ last.res = "ok" /\ HasDigest /\ args.has_slot)
    => slot = in_progress

\* C10: without an expected digest no operation writes or dereferences the
\* result slot, and construction without a slot succeeds for every valid
\* range.
C10_SlotUntouchedWithoutDigest ==
    [][~HasDigest
        => /\ slot' = slot
           /\ (Construct /\ ~InvalidChunkSize(args.chunk_size)
                    /\ args.offset <= args.file_len)
                => phase' = "open"]_vars

EmptyRequest == args.len = 0 \/ args.offset = args.file_len

\* C11: when len = 0 or offset = file_len, construction opens no stream,
\* every get() returns the empty buffer without reading from a stream, and
\* close() completes without touching a stream.
C11_EmptyRangeOpensNothing ==
    [][EmptyRequest
        => /\ (last'.op = "ctor" /\ phase' = "open")
                => (~rd'.has_stream /\ stream'.state = "none")
           /\ last'.op = "get"
                => /\ last'.res = "ok" /\ last'.buf = <<>>
                   /\ stream' = stream /\ rd' = rd
           /\ last'.op = "close"
                => (phase' = "closed" /\ stream' = stream)]_vars

C11_Witness ==
    /\ args.offset = args.file_len /\ args.len > 0 /\ args.file_len > 0
    /\ EndOfStream /\ ~rd.has_stream /\ stream.state = "none"

PowersOfTwo == {2 ^ k : k \in 0..(WordBits - 1)}

\* C12: construction fails, with no stream opened and the result slot not
\* written, whenever chunk_size is 0 or not a power of two or offset >
\* file_len, whatever the other arguments are.
C12_BadArgumentsRejected ==
    [][(phase = "new"
            /\ (args.chunk_size \notin PowersOfTwo
                    \/ args.offset > args.file_len))
        => /\ phase' = "ctor_failed"
           /\ last'.res = "internal_error"
           /\ stream' = stream /\ stream'.state = "none"
           /\ ~rd'.has_stream
           /\ slot' = slot]_vars

C12_Witness ==
    /\ phase = "ctor_failed" /\ last.why = "invalid_chunk_size"
    /\ args.chunk_size # 0 /\ args.len = 0 /\ HasDigest
    /\ args.offset <= args.file_len

StrictlyIncreasing(s) == \A i \in 1..(Len(s) - 1) : s[i] < s[i + 1]

\* C13: over any sequence of get() and skip() calls pos never decreases,
\* the offsets of the delivered bytes are strictly increasing, and the
\* underlying stream never goes back to a chunk it has read.
C13_PosNeverDecreases ==
    [][(phase = "open" /\ rd.has_stream /\ args.has_slot
            /\ last'.op \in {"get", "skip"} /\ last'.res = "ok")
        => /\ rd'.pos >= rd.pos
           /\ StrictlyIncreasing(delivered')
           /\ stream'.pos >= stream.pos]_vars

\* the next get() reads a chunk, and no call has failed before it
ReadsChunkNext ==
    /\ phase = "open" /\ rd.has_stream /\ args.has_slot /\ ~corrupt
    /\ rd.pos < rd.end_pos /\ ~Misaligned(rd, args.chunk_size)

\* C14: at every get() that reads a chunk after successful calls only, the
\* stream's read position equals underlying_pos, and underlying_pos is
\* floor(pos / chunk_size) * chunk_size, the start of the chunk whose
\* table entry is compared.
C14_StreamInSync ==
    ReadsChunkNext
    => /\ stream.pos = rd.underlying_pos
       /\ rd.underlying_pos = (rd.pos \div args.chunk_size) * args.chunk_size

\* C15: after successful get() and skip() calls only, every get() with
\* pos < end_pos finds pos = beg_pos or pos a multiple of chunk_size, so
\* the "not aligned to chunk boundary" error is never raised.
C15_AlwaysAligned ==
    (phase = "open" /\ rd.has_stream /\ args.has_slot /\ ~corrupt)
    => /\ rd.pos < rd.end_pos
            => (rd.pos = rd.beg_pos \/ rd.pos % args.chunk_size = 0)
       /\ last.why # "unaligned"

C15_Witness ==
    /\ phase = "open" /\ rd.has_stream /\ args.has_slot /\ ~corrupt
    /\ rd.beg_pos # args.offset /\ rd.beg_pos % args.chunk_size # 0
    /\ last.op = "get" /\ last.res = "ok" /\ last.buf # <<>>
    /\ rd.pos # rd.beg_pos /\ rd.pos < rd.end_pos

\* C16: without a digest, skip(n) fails with the range error and leaves
\* pos, beg_pos and underlying_pos unchanged whenever pos + n, computed
\* without wrap-around, exceeds end_pos; otherwise it sets pos to pos + n.
C16_SkipRangeChecked ==
    [][\A n \in SkipArgs :
        (~HasDigest /\ rd.has_stream /\ args.has_slot /\ Skip(n))
        => IF rd.pos + n > rd.end_pos
           THEN /\ last'.res = "error" /\ last'.why = "skip_past_end"
                /\ rd'.pos = rd.pos /\ rd'.beg_pos = rd.beg_pos
                /\ rd'.underlying_pos = rd.underlying_pos
           ELSE rd'.pos = rd.pos + n]_vars

Floor(x, chunk_size) == (x \div chunk_size) * chunk_size

\* C17: the stream is opened over [floor(beg_pos / chunk_size) *
\* chunk_size, (floor(end_pos / chunk_size) + 1) * chunk_size), and every
\* chunk read from it overlaps [beg_pos, end_pos); a chunk starting at or
\* after end_pos is never read, whatever get() and skip() calls are made.
C17_ReadsOverlapRange ==
    [][(args.has_slot /\ rd'.has_stream)
        => /\ last'.op = "ctor"
                => /\ stream'.start = Floor(rd'.beg_pos, args.chunk_size)
                   /\ stream'.start + stream'.len
                        = Floor(rd'.end_pos, args.chunk_size) + args.chunk_size
           /\ (last'.op = "get" /\ stream'.pos # stream.pos)
                => /\ stream.pos < rd.end_pos
                   /\ stream.pos + args.chunk_size > rd.beg_pos]_vars

\* C18: once a get() has returned the empty buffer, every later get()
\* returns the empty buffer, reads nothing from the stream, and leaves
\* pos, underlying_pos, the digest accumulator and the result slot as
\* they were.
C18_EndOfStreamAbsorbing ==
    [][(EndOfStream /\ args.has_slot /\ last'.op = "get")
        => /\ last'.res = "ok" /\ last'.buf = <<>>
           /\ stream' = stream
           /\ rd'.pos = rd.pos
           /\ rd'.underlying_pos = rd.underlying_pos
           /\ rd'.actual_digest = rd.actual_digest
           /\ slot' = slot]_vars

\* the chunks that hold a byte of [offset, end_pos)
ChunksOverlapping ==
    IF rd.end_pos > args.offset
    THEN (Floor(rd.end_pos - 1, args.chunk_size)
            - Floor(args.offset, args.chunk_size)) \div args.chunk_size + 1
    ELSE 0

\* C19: with a correct table, a caller that only pulls never sees a get()
\* fail, every non-empty buffer strictly increases pos, an empty buffer is
\* returned only at pos >= end_pos, and the stream is read for at most one
\* chunk per chunk overlapping the requested range: pulling terminates.
C19_PullingTerminates ==
    [][(TableCorrect /\ phase = "open" /\ last'.op = "get")
        => /\ last'.res = "ok"
           /\ last'.buf # <<>> => rd'.pos > rd.pos
           /\ last'.buf = <<>> => rd'.pos >= rd'.end_pos
           /\ rd'.pos <= args.file_len
           /\ stream'.pos - stream'.start
                <= ChunksOverlapping' * args.chunk_size]_vars

C19_Witness ==
    /\ TableCorrect /\ EndOfStream /\ rd.has_stream
    /\ args.offset % args.chunk_size # 0
    /\ Len(delivered) > args.chunk_size
    /\ stream.pos - stream.start > args.chunk_size

\* the two readers are in the same state and their last calls gave the
\* same result
Agree ==
    /\ unc.phase = phase
    /\ unc.pos = rd.pos /\ unc.beg_pos = rd.beg_pos
    /\ unc.underlying_pos = rd.underlying_pos /\ unc.end_pos = rd.end_pos
    /\ unc.stream = stream
    /\ unc.last = last

\* C20: for a power-of-two chunk_size, a non-empty range inside the file
\* and no digest, the two readers, given the same get() and skip(n) calls
\* with pos + n <= end_pos, open the same physical range, read and skip
\* the same, keep equal (pos, beg_pos, underlying_pos, end_pos) and return
\* the same buffers and errors.
C20_ReadersAgree ==
    [][(/\ args.chunk_size \in PowersOfTwo /\ args.len > 0
        /\ phase = "new" \/ Agree
        /\ last'.op = "skip"
            => \E n \in SkipArgs : rd.pos + n <= rd.end_pos /\ Skip(n))
        => Agree']_vars

====
